---- MODULE Spec2Model ----
(***************************************************************************)
(* Model of the real-estate estimator (Simulateur_Immo).  Four scripts run *)
(* the same linear workflow: obtain transaction records, analyse the       *)
(* market (analyser_marche), apply the standing coefficient and report the *)
(* estimate.                                                               *)
(*                                                                         *)
(*   variant "demo"            estimateur_demo.py                          *)
(*   variant "demo_streamlit"  estimateur_demo_streamlit.py                *)
(*   variant "fix"             estimateur_immobilier_fix.py                *)
(*   variant "streamlit"       estimateur_immobilier_streamlit.py          *)
(*                                                                         *)
(* Floating-point numbers are modelled as exact rationals [n, d] in lowest *)
(* terms with d > 0; the float NaN is the value with d = 0.  A DataFrame   *)
(* is a sequence of rows, a row a record whose fields are its columns.     *)
(***************************************************************************)
EXTENDS Integers, Sequences, FiniteSets, TLC

VARIABLES
    variant,          \* which of the four scripts runs
    pc,               \* position of main() (or of the direct call)
    mon_bien,         \* BienImmobilier: surface_habitable, standing
    response,         \* what requests.get produced (real-data variants)
    df_transactions,  \* the DataFrame handed to analyser_marche
    erreur,           \* reason returned next to the DataFrame ("None" if none)
    analyse,          \* what analyser_marche computed and returned
    estimation,       \* coefficient, prix_ajuste_m2, estimation_finale
    sortie,           \* messages shown to the user, in order
    exception         \* exception that left the running function ("None" if none)

vars == <<variant, pc, mon_bien, response, df_transactions, erreur, analyse,
          estimation, sortie, exception>>

----------------------------------------------------------------------------
(* Bounds of the model *)

\* longest DataFrame handed directly to analyser_marche
MaxLen == 4
\* most rows in a downloaded CSV / in the generated demonstration data
MaxRows == 2
\* longest record sequence handed to the four workflows alike
MaxDonnees == 3

----------------------------------------------------------------------------
(* Float arithmetic, as exact rationals *)

Abs(x) == IF x < 0 THEN -x ELSE x

RECURSIVE GCD(_, _)
GCD(a, b) == IF b = 0 THEN a ELSE GCD(b, a % b)

NaN == [n |-> 0, d |-> 0]
IsNaN(r) == r.d = 0

Rat(n, d) ==
    LET g == GCD(Abs(n), Abs(d))
        s == IF d < 0 THEN -1 ELSE 1
    IN  [n |-> (s * n) \div g, d |-> (s * d) \div g]

FromInt(i) == [n |-> i, d |-> 1]

RAdd(a, b) == IF IsNaN(a) \/ IsNaN(b) THEN NaN ELSE Rat(a.n * b.d + b.n * a.d, a.d * b.d)
RSub(a, b) == IF IsNaN(a) \/ IsNaN(b) THEN NaN ELSE Rat(a.n * b.d - b.n * a.d, a.d * b.d)
RMul(a, b) == IF IsNaN(a) \/ IsNaN(b) THEN NaN ELSE Rat(a.n * b.n, a.d * b.d)
\* b is never zero where the model divides
RDiv(a, b) == IF IsNaN(a) \/ IsNaN(b) THEN NaN ELSE Rat(a.n * b.d, a.d * b.n)

\* comparisons with NaN are False, as for floats
RLe(a, b) == ~IsNaN(a) /\ ~IsNaN(b) /\ a.n * b.d <= b.n * a.d
RLt(a, b) == ~IsNaN(a) /\ ~IsNaN(b) /\ a.n * b.d < b.n * a.d
RGe(a, b) == RLe(b, a)
REq(a, b) == ~IsNaN(a) /\ ~IsNaN(b) /\ a.n * b.d = b.n * a.d

\* Python int(x) on a finite float: truncation toward zero
Trunc(r) == IF r.n >= 0 THEN r.n \div r.d ELSE -((-r.n) \div r.d)

----------------------------------------------------------------------------
(* pandas Series reductions; NaN entries are skipped (skipna=True) *)

DropNA(s) == SelectSeq(s, LAMBDA v : ~IsNaN(v))

RECURSIVE SeriesSum(_)
SeriesSum(s) == IF Len(s) = 0 THEN FromInt(0) ELSE RAdd(Head(s), SeriesSum(Tail(s)))

SeriesMean(s) ==
    LET v == DropNA(s)
    IN  IF Len(v) = 0 THEN NaN ELSE RDiv(SeriesSum(v), FromInt(Len(v)))

SeriesMin(s) ==
    LET v == DropNA(s)
    IN  IF Len(v) = 0 THEN NaN
        ELSE v[CHOOSE i \in 1..Len(v) : \A j \in 1..Len(v) : RLe(v[i], v[j])]

SeriesMax(s) ==
    LET v == DropNA(s)
    IN  IF Len(v) = 0 THEN NaN
        ELSE v[CHOOSE i \in 1..Len(v) : \A j \in 1..Len(v) : RLe(v[j], v[i])]

\* the values of s in ascending order
RECURSIVE SortValues(_)
SortValues(s) ==
    IF Len(s) = 0 THEN <<>>
    ELSE LET i == CHOOSE k \in 1..Len(s) : \A j \in 1..Len(s) : RLe(s[k], s[j])
         IN  <<s[i]>> \o SortValues(SubSeq(s, 1, i - 1) \o SubSeq(s, i + 1, Len(s)))

\* a median that adds the two middle values of an even count without halving
SeriesMedianSansMoitie(s) ==
    LET v == SortValues(DropNA(s))
        n == Len(v)
    IN  IF n = 0 THEN NaN
        ELSE IF n % 2 = 1 THEN v[(n + 1) \div 2]
        ELSE RAdd(v[n \div 2], v[n \div 2 + 1])

SeriesMedian(s) ==
    LET v == SortValues(DropNA(s))
        n == Len(v)
    IN  IF n = 0 THEN NaN
        ELSE IF n % 2 = 1 THEN v[(n + 1) \div 2]
        ELSE RDiv(RAdd(v[n \div 2], v[n \div 2 + 1]), FromInt(2))

\* Series.quantile(q), linear interpolation between the two nearest ranks
SeriesQuantile(s, q) ==
    LET v    == SortValues(DropNA(s))
        n    == Len(v)
        h    == RMul(FromInt(n - 1), q)
        lo   == Trunc(h)
        frac == RSub(h, FromInt(lo))
    IN  IF n = 0 THEN NaN
        ELSE IF lo + 2 > n THEN v[lo + 1]
        ELSE RAdd(v[lo + 1], RMul(frac, RSub(v[lo + 2], v[lo + 1])))

----------------------------------------------------------------------------
(* DataFrame helpers.  A row of the transactions frame has the columns     *)
(* date_mutation (modelled by its calendar year, the only part read),      *)
(* valeur_fonciere and surface_reelle_bati; analyser_marche adds prix_m2   *)
(* and annee.                                                              *)

None == <<>>

Row(y, v, s) == [date_mutation |-> y, valeur_fonciere |-> v, surface_reelle_bati |-> s]

Colonne(df, c) == [i \in 1..Len(df) |-> df[i][c]]

\* df['prix_m2'] = df['valeur_fonciere'] / df['surface_reelle_bati']
AvecPrixM2(df) ==
    [i \in 1..Len(df) |->
        [c \in (DOMAIN df[i]) \cup {"prix_m2"} |->
            IF c = "prix_m2"
            THEN RDiv(df[i].valeur_fonciere, df[i].surface_reelle_bati)
            ELSE df[i][c]]]

\* df['annee'] = df['date_mutation'].dt.year
AvecAnnee(df) ==
    [i \in 1..Len(df) |->
        [c \in (DOMAIN df[i]) \cup {"annee"} |->
            IF c = "annee" THEN df[i].date_mutation ELSE df[i][c]]]

\* the integers of S in ascending order
RECURSIVE Ascending(_)
Ascending(S) ==
    IF S = {} THEN <<>>
    ELSE LET m == CHOOSE x \in S : \A y \in S : x <= y
         IN  <<m>> \o Ascending(S \ {m})

\* df.groupby('annee')['prix_m2'].mean(): one entry per year present, keys sorted
GroupByMean(df) ==
    LET ys == Ascending({df[i].annee : i \in 1..Len(df)})
    IN  [k \in 1..Len(ys) |->
            [annee   |-> ys[k],
             prix_m2 |-> SeriesMean(Colonne(SelectSeq(df, LAMBDA r : r.annee = ys[k]),
                                            "prix_m2"))]]

\* Series.sort_index(): entries ordered ascending by year
RECURSIVE SortIndex(_)
SortIndex(e) ==
    IF Len(e) = 0 THEN <<>>
    ELSE LET i == CHOOSE k \in 1..Len(e) : \A j \in 1..Len(e) : e[k].annee <= e[j].annee
         IN  <<e[i]>> \o SortIndex(SubSeq(e, 1, i - 1) \o SubSeq(e, i + 1, Len(e)))

\* (variant of Evolution) a groupby that keeps the years in order of first
\* appearance and is not re-sorted
RECURSIVE FirstSeen(_, _)
FirstSeen(df, seen) ==
    IF Len(df) = 0 THEN <<>>
    ELSE IF Head(df).annee \in seen THEN FirstSeen(Tail(df), seen)
    ELSE <<Head(df).annee>> \o FirstSeen(Tail(df), seen \cup {Head(df).annee})

EvolutionUnsorted(df) ==
    LET ys == FirstSeen(df, {})
    IN  [k \in 1..Len(ys) |->
            [annee   |-> ys[k],
             prix_m2 |-> SeriesMean(Colonne(SelectSeq(df, LAMBDA r : r.annee = ys[k]),
                                            "prix_m2"))]]

\* evolution = df.groupby('annee')['prix_m2'].mean().sort_index()
Evolution(df) == SortIndex(GroupByMean(df))

\* np.polyfit(evolution.index, evolution.values, 1)[0], the slope z[0].
\* With two or more points: the least-squares slope.  With one point the
\* system is rank deficient; polyfit scales the columns of [[x, 1]] to [[1, 1]],
\* lstsq returns the minimum-norm solution (v/2, v/2) and the slope is v/(2x)
\* (a RankWarning is issued, no exception).  With no point polyfit raises.
Polyfit(e) ==
    LET n  == Len(e)
        xs == [i \in 1..n |-> FromInt(e[i].annee)]
        ys == [i \in 1..n |-> e[i].prix_m2]
        xm == SeriesMean(xs)
        ym == SeriesMean(ys)
        sxy == SeriesSum([i \in 1..n |-> RMul(RSub(xs[i], xm), RSub(ys[i], ym))])
        sxx == SeriesSum([i \in 1..n |-> RMul(RSub(xs[i], xm), RSub(xs[i], xm))])
    IN  IF n = 0 THEN [leve |-> "TypeError", pente |-> NaN]
        ELSE IF n = 1
        THEN [leve |-> "None", pente |-> RDiv(ys[1], RMul(FromInt(2), xs[1]))]
        ELSE [leve |-> "None", pente |-> RDiv(sxy, sxx)]

\* int(x): ValueError on NaN
IntLeve(x) == IsNaN(x)

----------------------------------------------------------------------------
(* analyser_marche.  Each variant yields a record:                         *)
(*   leve       exception that leaves the function ("None" if it returns)  *)
(*   n_retour   number of values returned (a bare float counts as 1)       *)
(*   prix_moyen_global, fig, stats   the values returned (None if absent)  *)
(*   df         the caller's DataFrame after the call (columns are added   *)
(*              in place)                                                  *)
(*   df_clean   the frame the statistics are computed on                   *)
(*   evolution  the per-year trend sequence                                *)
(*   tendance   "None" if no line was fitted, else "fit"; pente its slope  *)
(*   fichier    whether evolution_prix_m2.png was written                  *)

Resultat(leve, n, moyen, fig, stats, df, clean, evo, tend, pente, fichier) ==
    [leve |-> leve, n_retour |-> n, prix_moyen_global |-> moyen, fig |-> fig,
     stats |-> stats, df |-> df, df_clean |-> clean, evolution |-> evo,
     tendance |-> tend, pente |-> pente, fichier |-> fichier]

PasAnalyse ==
    Resultat("None", 0, NaN, "None", None, <<>>, <<>>, <<>>, "None", NaN, FALSE)

\* the four summary figures, each through int()
StatsDe(prix, moyen) ==
    [k \in {"min", "max", "moyen", "mediane"} |->
        CASE k = "min"     -> Trunc(SeriesMin(prix))
          [] k = "max"     -> Trunc(SeriesMax(prix))
          [] k = "moyen"   -> Trunc(moyen)
          [] k = "mediane" -> Trunc(SeriesMedian(prix))]

\* estimateur_demo.py
AnalyserMarcheDemo(df) ==
    IF Len(df) = 0
    THEN Resultat("None", 1, FromInt(0), "None", None, df, <<>>, <<>>, "None", NaN, FALSE)
    ELSE LET df1   == AvecPrixM2(df)
             prix  == Colonne(df1, "prix_m2")
             moyen == SeriesMean(prix)
             df2   == AvecAnnee(df1)
             evo   == Evolution(df2)
             z     == Polyfit(evo)
         IN  IF IntLeve(SeriesMin(prix)) \/ IntLeve(moyen)
             THEN Resultat("ValueError", 0, NaN, "None", None, df2, df2, evo,
                           "None", NaN, FALSE)
             ELSE Resultat("None", 1, moyen, "None", StatsDe(prix, moyen), df2, df2, evo,
                           "fit", z.pente, TRUE)

\* estimateur_demo_streamlit.py
AnalyserMarcheDemoStreamlit(df) ==
    IF Len(df) = 0
    THEN Resultat("None", 2, FromInt(0), "None", None, df, <<>>, <<>>, "None", NaN, FALSE)
    ELSE LET df1   == AvecPrixM2(df)
             prix  == Colonne(df1, "prix_m2")
             moyen == SeriesMean(prix)
             df2   == AvecAnnee(df1)
             evo   == Evolution(df2)
             z     == Polyfit(evo)
         IN  IF IntLeve(SeriesMin(prix)) \/ IntLeve(moyen)
             THEN Resultat("ValueError", 0, NaN, "None", None, df2, df2, evo,
                           "None", NaN, FALSE)
             ELSE Resultat("None", 3, moyen, "Figure", StatsDe(prix, moyen), df2, df2, evo,
                           "fit", z.pente, FALSE)

\* estimateur_immobilier_fix.py
AnalyserMarcheFix(df) ==
    IF Len(df) = 0
    THEN Resultat("None", 1, FromInt(0), "None", None, df, <<>>, <<>>, "None", NaN, FALSE)
    ELSE LET df1   == AvecPrixM2(df)
             prix  == Colonne(df1, "prix_m2")
             moyen == SeriesMean(prix)
             df2   == AvecAnnee(df1)
             evo   == Evolution(df2)
         IN  IF IntLeve(moyen)
             THEN Resultat("ValueError", 0, NaN, "None", None, df2, df2, evo,
                           "None", NaN, FALSE)
             ELSE Resultat("None", 1, moyen, "None", None, df2, df2, evo,
                           "None", NaN, TRUE)

\* (variant of Trim) outliers are clipped to the band instead of being removed
TrimClip(df, q1, q99) ==
    [i \in 1..Len(df) |->
        [c \in DOMAIN df[i] |->
            IF c # "prix_m2" THEN df[i][c]
            ELSE IF RLt(df[i].prix_m2, q1) THEN q1
            ELSE IF RLt(q99, df[i].prix_m2) THEN q99
            ELSE df[i].prix_m2]]

\* df_clean = df[(df['prix_m2'] >= q1) & (df['prix_m2'] <= q99)]
Trim(df, q1, q99) ==
    SelectSeq(df, LAMBDA r : RGe(r.prix_m2, q1) /\ RLe(r.prix_m2, q99))

\* estimateur_immobilier_streamlit.py
AnalyserMarcheStreamlit(df) ==
    IF Len(df) = 0
    THEN Resultat("None", 3, FromInt(0), "None", None, df, <<>>, <<>>, "None", NaN, FALSE)
    ELSE LET df1   == AvecPrixM2(df)
             q1    == SeriesQuantile(Colonne(df1, "prix_m2"), Rat(5, 100))
             q99   == SeriesQuantile(Colonne(df1, "prix_m2"), Rat(95, 100))
             clean == Trim(df1, q1, q99)
             prix  == Colonne(clean, "prix_m2")
             moyen == SeriesMean(prix)
             cl2   == AvecAnnee(clean)
             evo   == Evolution(cl2)
             z     == Polyfit(evo)
         IN  IF IntLeve(SeriesMin(prix)) \/ IntLeve(moyen)
             THEN Resultat("ValueError", 0, NaN, "None", None, df1, cl2, evo,
                           "None", NaN, FALSE)
             ELSE Resultat("None", 3, moyen, "Figure",
                           StatsDe(prix, moyen) @@ [k \in {"nb_transactions"} |-> Len(cl2)],
                           df1, cl2, evo,
                           IF Len(evo) > 1 THEN "fit" ELSE "None",
                           IF Len(evo) > 1 THEN z.pente ELSE NaN, FALSE)

Variants == {"demo", "demo_streamlit", "fix", "streamlit"}

AnalyserMarche(v, df) ==
    CASE v = "demo"           -> AnalyserMarcheDemo(df)
      [] v = "demo_streamlit" -> AnalyserMarcheDemoStreamlit(df)
      [] v = "fix"            -> AnalyserMarcheFix(df)
      [] v = "streamlit"      -> AnalyserMarcheStreamlit(df)

----------------------------------------------------------------------------
(* Input domains *)

\* rows with a positive surface: two calendar years, prix_m2 of 2000, 3000,
\* 0, 1000 and 6000
RowsPositifs ==
    {Row(2022, FromInt(2000), FromInt(1)),
     Row(2022, FromInt(6000), FromInt(2)),
     Row(2023, FromInt(0), FromInt(1)),
     Row(2023, FromInt(2000), FromInt(2)),
     Row(2023, FromInt(6000), FromInt(1))}

\* rows of a transactions DataFrame as analyser_marche may be handed: the above
\* and one row whose surface is not positive.  (A surface of exactly 0 makes
\* prix_m2 an infinity or a NaN; the model keeps to finite quotients.)
Rows == RowsPositifs \cup {Row(2023, FromInt(2000), FromInt(-1))}

SeqsUpTo(S, n) == UNION {[1..k -> S] : k \in 0..n}

AnneesDe(df) == {df[i].date_mutation : i \in 1..Len(df)}

----------------------------------------------------------------------------
(* Data sources *)

\* generer_donnees_demo: 150 transactions drawn over 1825 days from 2019-01-01
\* (so several calendar years are present), surfaces in [30, 150], positive
\* values.  The model draws a small frame with the same properties.
DonneesDemo ==
    {df \in SeqsUpTo(RowsPositifs, MaxRows) :
        /\ Len(df) >= 1
        /\ Cardinality(AnneesDe(df)) >= 2
        /\ \A i \in 1..Len(df) : df[i].valeur_fonciere.n > 0}

\* a CSV cell: a number, an empty cell or a text that is no number
Num(v) == [t |-> "num", v |-> v]
Vide   == [t |-> "vide", v |-> 0]
Texte  == [t |-> "texte", v |-> 0]

Ligne(nat, typ, y, v, s) ==
    [nature_mutation |-> nat, type_local |-> typ, date_mutation |-> y,
     valeur_fonciere |-> v, surface_reelle_bati |-> s]

\* lines of the downloaded CSV: well-formed sales of dwellings, and one line
\* for each way a line can be unusable
Lignes ==
    {Ligne("Vente", "Maison", r.date_mutation, Num(r.valeur_fonciere.n),
           Num(r.surface_reelle_bati.n)) : r \in RowsPositifs}
    \cup {Ligne("Vente", "Appartement", 2023, Num(6000), Num(2)),
          Ligne("Echange", "Maison", 2023, Num(2000), Num(1)),
          Ligne("Vente", "Dependance", 2023, Num(2000), Num(1)),
          Ligne("Vente", "Maison", 2023, Vide, Num(1)),
          Ligne("Vente", "Maison", 2023, Texte, Num(1)),
          Ligne("Vente", "Maison", 2023, Num(2000), Num(0)),
          Ligne("Vente", "Maison", 2023, Num(2000), Vide)}

StatusCodes == {200, 404, 500}

\* what requests.get(url, timeout=15) produces: an exception, or a response
\* with a status code and a body; the body is a CSV with the expected columns,
\* a CSV without them, or text read_csv cannot parse
Responses ==
    {[kind |-> "exception", status_code |-> 0, forme |-> "csv", lignes |-> <<>>]}
    \cup {[kind |-> "reponse", status_code |-> c, forme |-> "csv", lignes |-> <<>>] :
            c \in StatusCodes \ {200}}
    \cup {[kind |-> "reponse", status_code |-> 200, forme |-> f, lignes |-> <<>>] :
            f \in {"illisible", "sans_colonnes"}}
    \cup {[kind |-> "reponse", status_code |-> 200, forme |-> "csv", lignes |-> l] :
            l \in SeqsUpTo(Lignes, MaxRows)}

PasDeReponse == [kind |-> "aucune", status_code |-> 0, forme |-> "csv", lignes |-> <<>>]

\* pd.to_numeric on one cell; errors='coerce' turns text into NaN
ToNumeric(c) == IF c.t = "num" THEN FromInt(c.v) ELSE NaN

\* df[['date_mutation', 'valeur_fonciere', 'surface_reelle_bati']] with the
\* numeric conversions applied
Selection(lignes) ==
    [i \in 1..Len(lignes) |->
        Row(lignes[i].date_mutation, ToNumeric(lignes[i].valeur_fonciere),
            ToNumeric(lignes[i].surface_reelle_bati))]

Ventes(lignes) == SelectSeq(lignes, LAMBDA l : l.nature_mutation = "Vente")
Logements(lignes) == SelectSeq(lignes, LAMBDA l : l.type_local \in {"Maison", "Appartement"})
SurfacePositive(df) == SelectSeq(df, LAMBDA r : RLt(FromInt(0), r.surface_reelle_bati))
DropNaRows(df) ==
    SelectSeq(df, LAMBDA r : ~IsNaN(r.valeur_fonciere) /\ ~IsNaN(r.surface_reelle_bati))

\* one thing shown to the user: the channel (print, st.error, st.metric, ...),
\* its text and the integer it displays (0 when it displays none).  Texts are
\* written without their decorative prefix and accents.
Msg(canal, texte) == [canal |-> canal, texte |-> texte, valeur |-> 0]
Metric(canal, texte, n) == [canal |-> canal, texte |-> texte, valeur |-> n]

\* result of recuperer_transactions_dvf: the DataFrame, the reason returned
\* with it ("None" when the function returns none), what it printed, and the
\* exception leaving it
Recupere(df, err, affiche, leve) ==
    [df |-> df, erreur |-> err, affiche |-> affiche, leve |-> leve]

\* estimateur_immobilier_fix.py: returns the DataFrame alone
RecupererFix(r) ==
    IF r.kind = "exception"
    THEN Recupere(<<>>, "None", <<Msg("print", "Erreur technique : ConnectionError")>>, "None")
    ELSE IF r.status_code # 200
    THEN Recupere(<<>>, "None", <<Msg("print", "Erreur HTTP " \o ToString(r.status_code))>>, "None")
    ELSE IF r.forme = "illisible"
    THEN Recupere(<<>>, "None", <<Msg("print", "Erreur technique : ParserError")>>, "None")
    ELSE IF r.forme = "sans_colonnes"
    THEN Recupere(<<>>, "None", <<Msg("print", "Erreur technique : KeyError")>>, "None")
    ELSE LET logements == Logements(Ventes(r.lignes))
         IN  IF \E i \in 1..Len(logements) : logements[i].valeur_fonciere.t = "texte"
             THEN Recupere(<<>>, "None", <<Msg("print", "Erreur technique : ValueError")>>, "None")
             ELSE Recupere(SurfacePositive(Selection(logements)), "None", <<>>, "None")

\* (variant of RecupererStreamlit) every failure is reported as a connection error
RecupererStreamlitSansCode(r) ==
    IF r.kind = "exception" \/ r.status_code # 200 \/ r.forme # "csv"
    THEN Recupere(<<>>, "Erreur de connexion", <<>>, "None")
    ELSE LET df_final == SurfacePositive(DropNaRows(Selection(Logements(Ventes(r.lignes)))))
         IN  IF Len(df_final) = 0
             THEN Recupere(<<>>, "Donnees incompletes pour cette commune", <<>>, "None")
             ELSE Recupere(df_final, "None", <<>>, "None")

\* estimateur_immobilier_streamlit.py: returns (DataFrame, reason)
RecupererStreamlit(r) ==
    IF r.kind = "exception"
    THEN Recupere(<<>>, "Erreur de connexion : ConnectionError", <<>>, "None")
    ELSE IF r.status_code # 200
    THEN Recupere(<<>>, "API non disponible (code " \o ToString(r.status_code) \o ")",
                  <<>>, "None")
    ELSE IF r.forme = "illisible"
    THEN Recupere(<<>>, "Erreur de connexion : ParserError", <<>>, "None")
    ELSE IF r.forme = "sans_colonnes"
    THEN Recupere(<<>>, "Erreur de connexion : KeyError", <<>>, "None")
    ELSE LET logements == Logements(Ventes(r.lignes))
             df_final  == SurfacePositive(DropNaRows(Selection(logements)))
         IN  IF Len(logements) = 0
             THEN Recupere(<<>>, "Aucune transaction trouvee pour cette commune",
                           <<>>, "None")
             ELSE IF Len(df_final) = 0
             THEN Recupere(<<>>, "Donnees incompletes pour cette commune", <<>>, "None")
             ELSE Recupere(df_final, "None", <<>>, "None")

RecupererTransactionsDvf(v, r) ==
    IF v = "fix" THEN RecupererFix(r) ELSE RecupererStreamlit(r)

----------------------------------------------------------------------------
(* main(): the subject property, the valuation and the report *)

Standing == {"A_RENOVER", "STANDARD", "HAUT_DE_GAMME"}

\* surfaces the dashboards accept (number_input from 10.0 to 500.0, default 75.0)
SurfacesBien == {10, 75}

Bien(s, st) == [surface_habitable |-> s, standing |-> st]

\* the console scripts fix the subject property; the dashboards read it from
\* the sidebar
Biens(v) ==
    IF v \in {"demo", "fix"}
    THEN {Bien(75, "STANDARD")}
    ELSE {Bien(s, st) : s \in SurfacesBien, st \in Standing}

\* (variant of Ajustements) the coefficients of the two outer categories exchanged
AjustementsEchanges(st) ==
    CASE st = "A_RENOVER"     -> Rat(120, 100)
      [] st = "STANDARD"      -> Rat(1, 1)
      [] st = "HAUT_DE_GAMME" -> Rat(85, 100)

\* ajustements = {A_RENOVER: 0.85, STANDARD: 1.0, HAUT_DE_GAMME: 1.20}
Ajustements(st) ==
    CASE st = "A_RENOVER"     -> Rat(85, 100)
      [] st = "STANDARD"      -> Rat(1, 1)
      [] st = "HAUT_DE_GAMME" -> Rat(120, 100)

PasEstime ==
    [faite |-> FALSE, coefficient |-> NaN, prix_ajuste_m2 |-> NaN,
     estimation_finale |-> NaN]

\* (variant of Estimation) every script values as estimateur_immobilier_fix.py
\* does, without the coefficient of the category
EstimationSansCoefficient(v, bien, prix_moyen_m2) ==
    [faite |-> TRUE, coefficient |-> NaN, prix_ajuste_m2 |-> NaN,
     estimation_finale |-> RMul(prix_moyen_m2, FromInt(bien.surface_habitable))]

\* coefficient = ajustements[standing]; prix_ajuste_m2 = prix_moyen_m2 * coefficient;
\* estimation_finale = prix_ajuste_m2 * surface_habitable.
\* estimateur_immobilier_fix.py has no coefficient: prix_moyen_m2 * surface_habitable
Estimation(v, bien, prix_moyen_m2) ==
    IF v = "fix"
    THEN [faite |-> TRUE, coefficient |-> NaN, prix_ajuste_m2 |-> NaN,
          estimation_finale |-> RMul(prix_moyen_m2, FromInt(bien.surface_habitable))]
    ELSE LET coefficient == Ajustements(bien.standing)
             prix_ajuste == RMul(prix_moyen_m2, coefficient)
         IN  [faite |-> TRUE, coefficient |-> coefficient, prix_ajuste_m2 |-> prix_ajuste,
              estimation_finale |-> RMul(prix_ajuste, FromInt(bien.surface_habitable))]

\* the report of the estimate
Rapport(v, e, prix_moyen_m2) ==
    LET basse == Trunc(RMul(e.estimation_finale, Rat(95, 100)))
        haute == Trunc(RMul(e.estimation_finale, Rat(105, 100)))
        canal == IF v \in {"demo", "fix"} THEN "print" ELSE "metric"
    IN  IF v = "fix"
        THEN <<Metric("print", "Prix moyen secteur", Trunc(prix_moyen_m2)),
               Metric("print", "Valeur estimee", Trunc(e.estimation_finale))>>
        ELSE <<Metric(canal, "Fourchette basse (-5%)", basse),
               Metric(canal, "VALEUR ESTIMEE", Trunc(e.estimation_finale)),
               Metric(canal, "Fourchette haute (+5%)", haute)>>

\* estimateur_immobilier_streamlit.py: the counts shown above the report
\* (st.success, st.info); the other scripts show none there
TransactionsAnalysees(v, stats) ==
    IF v = "streamlit"
    THEN <<Metric("success", "transactions DVF analysees", stats["nb_transactions"]),
           Metric("info", "transactions immobilieres analysees", stats["nb_transactions"])>>
    ELSE <<>>

\* estimateur_immobilier_streamlit.py: the expander below the report
DetailsTechniques(v, stats) ==
    IF v = "streamlit"
    THEN <<Metric("write", "Nombre de transactions brutes", stats["nb_transactions"])>>
    ELSE <<>>

\* the message main() shows when the DataFrame it obtained is empty
MessageSansDonnees(v, err) ==
    CASE v = "demo"           -> Msg("print", "Pas de donnees disponibles.")
      [] v = "fix"            -> Msg("print", "Pas de donnees disponibles.")
      [] v = "demo_streamlit" -> Msg("error", "Pas de donnees disponibles pour cette commune.")
      [] v = "streamlit"      -> Msg("error", err)

----------------------------------------------------------------------------
(* The workflow *)

Init ==
    /\ variant \in Variants
    /\ pc = "debut"
    /\ mon_bien \in Biens(variant)
    /\ response = PasDeReponse
    /\ df_transactions = <<>>
    /\ erreur = "None"
    /\ analyse = PasAnalyse
    /\ estimation = PasEstime
    /\ sortie = <<>>
    /\ exception = "None"

\* dashboards: the script runs with the button not pressed
Accueil ==
    /\ pc = "debut"
    /\ variant \in {"demo_streamlit", "streamlit"}
    /\ sortie' = Append(sortie, Msg("info", "Configurez les parametres"))
    /\ pc' = "fin"
    /\ UNCHANGED <<variant, mon_bien, response, df_transactions, erreur, analyse,
                   estimation, exception>>

\* df_transactions = generer_donnees_demo(code_insee)
Generer ==
    /\ pc = "debut"
    /\ variant \in {"demo", "demo_streamlit"}
    /\ \E df \in DonneesDemo : df_transactions' = df
    /\ pc' = "donnees"
    /\ UNCHANGED <<variant, mon_bien, response, erreur, analyse, estimation, sortie,
                   exception>>

\* df_transactions[, erreur] = recuperer_transactions_dvf(code_insee)
Recuperer ==
    /\ pc = "debut"
    /\ variant \in {"fix", "streamlit"}
    /\ \E r \in Responses :
        LET res == RecupererTransactionsDvf(variant, r)
        IN  /\ response' = r
            /\ df_transactions' = res.df
            /\ erreur' = res.erreur
            /\ sortie' = sortie \o res.affiche
            /\ exception' = res.leve
            /\ pc' = IF res.leve = "None" THEN "donnees" ELSE "exception"
    /\ UNCHANGED <<variant, mon_bien, analyse, estimation>>

\* if df_transactions.empty: report and return
SansDonnees ==
    /\ pc = "donnees"
    /\ Len(df_transactions) = 0
    /\ sortie' = Append(sortie, MessageSansDonnees(variant, erreur))
    /\ pc' = "fin"
    /\ UNCHANGED <<variant, mon_bien, response, df_transactions, erreur, analyse,
                   estimation, exception>>

\* (variant of Analyser) main() without its check of df_transactions.empty
AnalyserSansGarde ==
    /\ pc = "donnees"
    /\ LET res == AnalyserMarche(variant, df_transactions)
       IN  /\ analyse' = res
           /\ df_transactions' = res.df
           /\ exception' = res.leve
           /\ pc' = IF res.leve = "None" THEN "analyse" ELSE "exception"
    /\ UNCHANGED <<variant, mon_bien, response, erreur, estimation, sortie>>

\* prix_moyen_m2[, fig, stats] = analyser_marche(df_transactions)
Analyser ==
    /\ pc = "donnees"
    /\ Len(df_transactions) > 0
    /\ LET res == AnalyserMarche(variant, df_transactions)
       IN  /\ analyse' = res
           /\ df_transactions' = res.df
           /\ exception' = res.leve
           /\ pc' = IF res.leve = "None" THEN "analyse" ELSE "exception"
    /\ UNCHANGED <<variant, mon_bien, response, erreur, estimation, sortie>>

\* estimateur_immobilier_streamlit.py: if prix_moyen_m2 == 0: report and return
Impossible ==
    /\ pc = "analyse"
    /\ variant = "streamlit"
    /\ REq(analyse.prix_moyen_global, FromInt(0))
    /\ sortie' = Append(sortie, Msg("error", "Impossible d'analyser les donnees de cette commune"))
    /\ pc' = "fin"
    /\ UNCHANGED <<variant, mon_bien, response, df_transactions, erreur, analyse,
                   estimation, exception>>

\* the valuation and its report
Estimer ==
    /\ pc = "analyse"
    /\ ~(variant = "streamlit" /\ REq(analyse.prix_moyen_global, FromInt(0)))
    /\ LET e == Estimation(variant, mon_bien, analyse.prix_moyen_global)
       IN  /\ estimation' = e
           /\ sortie' = sortie \o TransactionsAnalysees(variant, analyse.stats)
                               \o Rapport(variant, e, analyse.prix_moyen_global)
                               \o DetailsTechniques(variant, analyse.stats)
    /\ pc' = "fin"
    /\ UNCHANGED <<variant, mon_bien, response, df_transactions, erreur, analyse,
                   exception>>

Next == Accueil \/ Generer \/ Recuperer \/ SansDonnees \/ Analyser \/ Impossible \/ Estimer

Spec == Init /\ [][Next]_vars

----------------------------------------------------------------------------
(* analyser_marche called directly on any small DataFrame *)

InitAppel ==
    /\ variant \in Variants
    /\ pc = "appel"
    /\ mon_bien = Bien(75, "STANDARD")
    /\ response = PasDeReponse
    /\ df_transactions \in SeqsUpTo(Rows, MaxLen)
    /\ erreur = "None"
    /\ analyse = PasAnalyse
    /\ estimation = PasEstime
    /\ sortie = <<>>
    /\ exception = "None"

AppelAnalyserMarche ==
    /\ pc = "appel"
    /\ LET res == AnalyserMarche(variant, df_transactions)
       IN  /\ analyse' = res
           /\ df_transactions' = res.df
           /\ exception' = res.leve
    /\ pc' = "retour"
    /\ UNCHANGED <<variant, mon_bien, response, erreur, estimation, sortie>>

NextAppel == AppelAnalyserMarche

SpecAppel == InitAppel /\ [][NextAppel]_vars

----------------------------------------------------------------------------
(* main() of the four scripts from the point where the record set has been  *)
(* obtained, each handed the same record sequences: any sequence of up to   *)
(* MaxDonnees records with a positive surface and a price                   *)

InitDonnees ==
    /\ variant \in Variants
    /\ pc = "donnees"
    /\ mon_bien \in Biens(variant)
    /\ response = PasDeReponse
    /\ df_transactions \in SeqsUpTo(RowsPositifs, MaxDonnees)
    /\ erreur = "None"
    /\ analyse = PasAnalyse
    /\ estimation = PasEstime
    /\ sortie = <<>>
    /\ exception = "None"

NextDonnees == SansDonnees \/ Analyser \/ Impossible \/ Estimer

SpecDonnees == InitDonnees /\ [][NextDonnees]_vars

----------------------------------------------------------------------------
(* Properties of the workflow (specification Spec) *)

\* an estimated value or a band has been shown to the user
ValeurAffichee ==
    \E i \in 1..Len(sortie) :
        sortie[i].texte \in {"VALEUR ESTIMEE", "Valeur estimee",
                             "Fourchette basse (-5%)", "Fourchette haute (+5%)"}

\* C1: whenever the valuation step has run, estimation_finale is the mean price
\* per m2 returned by analyser_marche times the multiplier of the category
\* (0.85 to renovate, 1.00 standard, 1.20 high end) times the surface of the
\* subject property; with a mean of 2000 and a surface of 75 this is 127500,
\* 150000 and 180000.
C1_Valuation ==
    estimation.faite =>
        LET m == analyse.prix_moyen_global
            a == mon_bien.surface_habitable
            c == mon_bien.standing
            k == CASE c = "A_RENOVER"     -> [n |-> 17, d |-> 20]
                   [] c = "STANDARD"      -> [n |-> 1, d |-> 1]
                   [] c = "HAUT_DE_GAMME" -> [n |-> 6, d |-> 5]
            e == estimation.estimation_finale
        IN  /\ ~IsNaN(m)
            /\ e = RMul(RMul(m, k), FromInt(a))
            /\ variant # "fix" => estimation.coefficient = k
            /\ (m = FromInt(2000) /\ a = 75) =>
                  e = FromInt(CASE c = "A_RENOVER"     -> 127500
                                [] c = "STANDARD"      -> 150000
                                [] c = "HAUT_DE_GAMME" -> 180000)

\* C1 (case reached): a high-end property of 75 m2 valued at 180000 from a mean of 2000
C1_Witness ==
    /\ estimation.faite
    /\ analyse.prix_moyen_global = FromInt(2000)
    /\ mon_bien = Bien(75, "HAUT_DE_GAMME")
    /\ estimation.estimation_finale = FromInt(180000)

\* C3: a valuation is computed or shown only after the data source returned a
\* non-empty record set and analyser_marche returned; when the record set
\* obtained is empty the run goes from the check of the data straight to its
\* end, shows the no-data message last, and neither computes nor shows an
\* estimated value or a band.
C3_ValuationApresDonnees ==
    /\ (estimation.faite \/ ValeurAffichee) =>
          /\ Len(df_transactions) > 0
          /\ analyse # PasAnalyse
          /\ analyse.leve = "None"
          /\ analyse.n_retour >= 1
    /\ (response # PasDeReponse /\ Len(df_transactions) = 0) =>
          /\ pc \in {"donnees", "fin"}
          /\ analyse = PasAnalyse
          /\ ~estimation.faite
          /\ ~ValeurAffichee
          /\ pc = "fin" =>
                /\ Len(sortie) > 0
                /\ variant = "fix" =>
                      sortie[Len(sortie)].texte = "Pas de donnees disponibles."
                /\ variant = "streamlit" =>
                      /\ sortie[Len(sortie)].canal = "error"
                      /\ sortie[Len(sortie)].texte = erreur
                      /\ erreur # "None"

\* C3 (case reached): a CSV with lines, none of them usable, ended the run on the
\* no-data message
C3_Witness ==
    /\ pc = "fin"
    /\ response.status_code = 200
    /\ Len(response.lignes) > 0
    /\ Len(df_transactions) = 0
    /\ Len(sortie) > 0
    /\ ~estimation.faite

NonDeuxCents == response.kind = "reponse" /\ response.status_code # 200

RaisonApi == "API non disponible (code " \o ToString(response.status_code) \o ")"

\* C9 (as claimed): on a non-200 status s, recuperer_transactions_dvf returns the
\* reason 'API non disponible (code s)', the workflow reports exactly that reason
\* and ends without computing or showing a valuation.
C9_Original ==
    NonDeuxCents =>
        /\ erreur = RaisonApi
        /\ response.status_code = 404 => erreur = "API non disponible (code 404)"
        /\ ~estimation.faite
        /\ ~ValeurAffichee
        /\ pc = "fin" => sortie[Len(sortie)].texte = erreur

\* C9 (amended): on a non-200 status s the fetch returns an empty DataFrame and
\* the run ends at the no-data exit without computing or showing a valuation.
\* In estimateur_immobilier_streamlit.py the fetch returns the reason
\* 'API non disponible (code s)' and main() shows exactly that reason.  In
\* estimateur_immobilier_fix.py the fetch returns no reason: it prints
\* 'Erreur HTTP s' and main() then prints 'Pas de donnees disponibles.'.
C9_Amended ==
    NonDeuxCents =>
        /\ Len(df_transactions) = 0
        /\ exception = "None"
        /\ pc \in {"donnees", "fin"}
        /\ ~estimation.faite
        /\ ~ValeurAffichee
        /\ variant = "streamlit" =>
              /\ erreur = RaisonApi
              /\ response.status_code = 404 => erreur = "API non disponible (code 404)"
              /\ pc = "donnees" => sortie = <<>>
              /\ pc = "fin" => sortie = <<Msg("error", erreur)>>
        /\ variant = "fix" =>
              /\ erreur = "None"
              /\ sortie[1] = Msg("print", "Erreur HTTP " \o ToString(response.status_code))
              /\ pc = "donnees" => Len(sortie) = 1
              /\ pc = "fin" => sortie[2] = Msg("print", "Pas de donnees disponibles.")
                               /\ Len(sortie) = 2

\* C9 (case reached): the dashboard ended on the reason for status 404
C9_Witness ==
    /\ variant = "streamlit"
    /\ response.kind = "reponse"
    /\ response.status_code = 404
    /\ pc = "fin"
    /\ sortie = <<Msg("error", "API non disponible (code 404)")>>

\* recuperer_transactions_dvf has returned and analyser_marche has not run yet
FetchRetourne == response # PasDeReponse /\ analyse = PasAnalyse

\* the record set can be analysed: positive surface and a price in every record
Utilisable(df) ==
    /\ Len(df) > 0
    /\ \A i \in 1..Len(df) :
          /\ RLt(FromInt(0), df[i].surface_reelle_bati)
          /\ ~IsNaN(df[i].valeur_fonciere)

\* no exception leaves recuperer_transactions_dvf, whatever the remote answer
FetchNeLevePas == FetchRetourne => (exception = "None" /\ pc # "exception")

\* C10 (as claimed): for every outcome of the remote fetch,
\* recuperer_transactions_dvf returns normally, with a usable non-empty record
\* set or with an unavailable result (the empty DataFrame); no exception
\* propagates out of it.
C10_Original ==
    /\ FetchNeLevePas
    /\ FetchRetourne => (Len(df_transactions) = 0 \/ Utilisable(df_transactions))

----------------------------------------------------------------------------
(* Properties of analyser_marche (specification SpecAppel) *)

Retour == pc = "retour"

SurfacesPositives(df) ==
    \A i \in 1..Len(df) : RLt(FromInt(0), df[i].surface_reelle_bati)

\* price per m2 of a row, from the columns the caller supplied
PrixDe(r) == RDiv(r.valeur_fonciere, r.surface_reelle_bati)

\* C2 (as claimed): given an empty record set, or one in which no record has a
\* positive surface, analyser_marche returns a no-data result and no number as
\* the mean price per m2.
C2_Original ==
    (Retour /\ \A i \in 1..Len(df_transactions) :
                  ~RLt(FromInt(0), df_transactions[i].surface_reelle_bati)) =>
        /\ analyse.leve = "None"
        /\ IsNaN(analyse.prix_moyen_global)

\* C4: for a non-empty record set with positive surfaces, the figures reported
\* (each after int()) satisfy min <= mean <= max and min <= median <= max.
C4_StatsOrdonnees ==
    (/\ Retour
     /\ Len(df_transactions) > 0
     /\ SurfacesPositives(df_transactions)
     /\ analyse.stats # None) =>
        /\ analyse.stats["min"] <= analyse.stats["moyen"]
        /\ analyse.stats["moyen"] <= analyse.stats["max"]
        /\ analyse.stats["min"] <= analyse.stats["mediane"]
        /\ analyse.stats["mediane"] <= analyse.stats["max"]

\* C4 (case reached): the trimming variant reports four figures that differ in
\* part, from a mean that int() truncates
C4_Witness ==
    /\ Retour
    /\ variant = "streamlit"
    /\ SurfacesPositives(df_transactions)
    /\ analyse.stats # None
    /\ analyse.stats["min"] < analyse.stats["moyen"]
    /\ analyse.stats["moyen"] < analyse.stats["max"]
    /\ analyse.prix_moyen_global.d > 1

\* the rows of the caller's DataFrame inside the [5 %, 95 %] band of its prix_m2
DansLaBande(df) ==
    LET prix == [i \in 1..Len(df) |-> PrixDe(df[i])]
        q05  == SeriesQuantile(prix, [n |-> 1, d |-> 20])
        q95  == SeriesQuantile(prix, [n |-> 19, d |-> 20])
    IN  SelectSeq(df, LAMBDA r : RLe(q05, PrixDe(r)) /\ RLe(PrixDe(r), q95))

\* the figures int(min), int(max), int(mean) of the prix_m2 of all rows of df
MinDe(df) == CHOOSE m \in {PrixDe(df[i]) : i \in 1..Len(df)} :
                \A j \in 1..Len(df) : RLe(m, PrixDe(df[j]))
MaxDe(df) == CHOOSE m \in {PrixDe(df[i]) : i \in 1..Len(df)} :
                \A j \in 1..Len(df) : RLe(PrixDe(df[j]), m)

\* C5 (as claimed): in the trimming variant, when fewer than 2 records lie
\* inside the [5 %, 95 %] band the trimming is skipped: the call does not fail
\* and min, max, mean and the count are those of the untrimmed set.
C5_Original ==
    (/\ Retour
     /\ variant = "streamlit"
     /\ Len(df_transactions) > 0
     /\ Len(DansLaBande(df_transactions)) < 2) =>
        /\ analyse.leve = "None"
        /\ analyse.stats # None
        /\ analyse.stats["min"] = Trunc(MinDe(df_transactions))
        /\ analyse.stats["max"] = Trunc(MaxDe(df_transactions))
        /\ analyse.stats["nb_transactions"] = Len(df_transactions)

\* the three columns of a row that the caller supplied
Origine(r) == Row(r.date_mutation, r.valeur_fonciere, r.surface_reelle_bati)

\* s is a subsequence of t
RECURSIVE SousSuite(_, _)
SousSuite(s, t) ==
    IF Len(s) = 0 THEN TRUE
    ELSE IF Len(t) = 0 THEN FALSE
    ELSE IF Head(s) = Head(t) THEN SousSuite(Tail(s), Tail(t))
    ELSE SousSuite(s, Tail(t))

\* C6: in the trimming variant every record kept is a record of the input
\* (same date, value, surface, and the price per m2 of that record), in input
\* order; the minimum over the kept records is not below the minimum over all
\* records and the maximum not above the maximum over all records, and so are
\* the reported int(min) and int(max).
C6_TrimDansEtendue ==
    (Retour /\ variant = "streamlit" /\ Len(df_transactions) > 0) =>
        LET tous  == df_transactions
            garde == analyse.df_clean
        IN  /\ SousSuite([i \in 1..Len(garde) |-> Origine(garde[i])],
                         [i \in 1..Len(tous) |-> Origine(tous[i])])
            /\ \A i \in 1..Len(garde) :
                  /\ garde[i].prix_m2 = PrixDe(garde[i])
                  /\ RLe(MinDe(tous), garde[i].prix_m2)
                  /\ RLe(garde[i].prix_m2, MaxDe(tous))
            /\ analyse.stats # None =>
                  /\ Trunc(MinDe(tous)) <= analyse.stats["min"]
                  /\ analyse.stats["max"] <= Trunc(MaxDe(tous))

\* C6 (case reached): trimming removed records and both reported bounds moved
\* strictly inside the untrimmed range
C6_Witness ==
    /\ Retour
    /\ variant = "streamlit"
    /\ analyse.stats # None
    /\ Len(analyse.df_clean) < Len(df_transactions)
    /\ Trunc(MinDe(df_transactions)) < analyse.stats["min"]
    /\ analyse.stats["max"] < Trunc(MaxDe(df_transactions))
    /\ analyse.stats["min"] < analyse.stats["max"]

\* C7 (as claimed): in every variant that fits a trend line, a line is fitted
\* (and a slope reported) exactly when the trend sequence has at least 2
\* distinct years.
C7_Original ==
    (/\ Retour
     /\ variant \in {"demo", "demo_streamlit", "streamlit"}
     /\ Len(df_transactions) > 0
     /\ analyse.leve = "None") =>
        LET annees == {analyse.evolution[i].annee : i \in 1..Len(analyse.evolution)}
        IN  /\ analyse.tendance = "fit" <=> Cardinality(annees) >= 2
            /\ analyse.tendance = "None" => IsNaN(analyse.pente)

AnneesEntree == {df_transactions[i].date_mutation : i \in 1..Len(df_transactions)}

\* the trend sequence e has one entry per year of the rows of df, ascending by
\* year, each the mean prix_m2 of the rows of that year
TendanceDe(e, df) ==
    /\ Len(e) = Cardinality({df[i].date_mutation : i \in 1..Len(df)})
    /\ \A i \in 1..Len(e) : \E j \in 1..Len(df) : e[i].annee = df[j].date_mutation
    /\ \A i \in 1..(Len(e) - 1) : e[i].annee < e[i + 1].annee
    /\ \A i \in 1..Len(e) :
          LET rows == SelectSeq(df, LAMBDA r : r.date_mutation = e[i].annee)
          IN  e[i].prix_m2 = RDiv(SeriesSum([k \in 1..Len(rows) |-> PrixDe(rows[k])]),
                                  FromInt(Len(rows)))

\* C8 (as claimed): if the records passed span N >= 2 distinct years, the trend
\* sequence has exactly N entries, one per year, ascending by year, each the
\* mean prix_m2 of that year's records; in every variant.
C8_Original ==
    (Retour /\ analyse.leve = "None" /\ Cardinality(AnneesEntree) >= 2) =>
        TendanceDe(analyse.evolution, df_transactions)

\* C8 (amended): if the records passed span N >= 2 distinct years, the trend
\* sequence analyser_marche builds has exactly one entry per distinct year of the
\* records the statistics are computed on, ascending by year, each the mean
\* prix_m2 of that year's records among them.  In the variants without trimming
\* these are all the records, so there are exactly N entries; in the trimming
\* variant they are the records inside the [5 %, 95 %] band, so there are at
\* most N entries (a year whose records are all trimmed has none).
C8_Amended ==
    (Retour /\ Cardinality(AnneesEntree) >= 2) =>
        /\ variant # "streamlit" =>
              /\ TendanceDe(analyse.evolution, df_transactions)
              /\ Len(analyse.evolution) = Cardinality(AnneesEntree)
        /\ variant = "streamlit" =>
              /\ TendanceDe(analyse.evolution, DansLaBande(df_transactions))
              /\ Len(analyse.evolution) <= Cardinality(AnneesEntree)

\* C8 (case reached): the later year comes first in the input, and the trimming
\* variant has lost a year
C8_Witness ==
    /\ Retour
    /\ Cardinality(AnneesEntree) >= 2
    /\ df_transactions[1].date_mutation > df_transactions[2].date_mutation
    /\ variant = "streamlit"
    /\ Len(analyse.evolution) = 1

----------------------------------------------------------------------------
(* Further properties of the workflow (specification Spec) *)

\* C11 (as claimed): in both real-data workflows every record of the set handed
\* to analyser_marche has a surface > 0 and a present, parseable price: records
\* with a surface <= 0 or a missing or unparseable price have been removed
\* before analyser_marche computes anything.
C11_Original ==
    variant \in {"fix", "streamlit"} =>
        \A i \in 1..Len(df_transactions) :
            /\ RLt(FromInt(0), df_transactions[i].surface_reelle_bati)
            /\ ~IsNaN(df_transactions[i].valeur_fonciere)

\* the run ended on an error or no-data message
SortieErreur ==
    /\ pc = "fin"
    /\ Len(sortie) > 0
    /\ \/ sortie[Len(sortie)].canal = "error"
       \/ sortie[Len(sortie)].texte = "Pas de donnees disponibles."

\* C12 (as claimed): for a non-empty record set with positive surfaces whose
\* mean price per m2 is 0 the workflow reports a valuation (of 0), and it takes
\* the no-data / error exit only when there are no usable records.
C12_Original ==
    /\ (/\ pc = "fin"
        /\ Utilisable(df_transactions)
        /\ analyse # PasAnalyse
        /\ analyse.leve = "None"
        /\ REq(analyse.prix_moyen_global, FromInt(0))) =>
          /\ estimation.faite
          /\ estimation.estimation_finale = FromInt(0)
          /\ ValeurAffichee
    /\ SortieErreur => ~Utilisable(df_transactions)

\* the run showed the integer n under the label t
Affiche(t, n) ==
    \E i \in 1..Len(sortie) : sortie[i].texte = t /\ sortie[i].valeur = n

\* C13 (as claimed): whenever a workflow reports an estimated value e it also
\* reports the band [e * 0.95, e * 1.05] (each bound shown through int()); the
\* band is symmetric around e, encloses e when e >= 0, and is [142500, 157500]
\* for e = 150000.
C13_Original ==
    estimation.faite =>
        LET e     == estimation.estimation_finale
            basse == RMul(e, [n |-> 19, d |-> 20])
            haute == RMul(e, [n |-> 21, d |-> 20])
        IN  /\ RSub(e, basse) = RSub(haute, e)
            /\ RLe(FromInt(0), e) => (RLe(basse, e) /\ RLe(e, haute))
            /\ e = FromInt(150000) =>
                  (basse = FromInt(142500) /\ haute = FromInt(157500))
            /\ Affiche("Fourchette basse (-5%)", Trunc(basse))
            /\ Affiche("Fourchette haute (+5%)", Trunc(haute))

----------------------------------------------------------------------------
(* Properties of the four workflows on the same records (SpecDonnees) *)

\* main() has ended (normally or on an exception) on a non-empty record set
RunTermine == pc \in {"fin", "exception"} /\ Len(df_transactions) > 0

\* the records as the caller supplied them
Entree == [i \in 1..Len(df_transactions) |-> Origine(df_transactions[i])]

\* the value estimateur_demo.py computes from the records df for the property bien
ValeurDemo(df, bien) ==
    Estimation("demo", bien, AnalyserMarcheDemo(df).prix_moyen_global).estimation_finale

\* C14 (as claimed): given the same record sequence, the same surface and the
\* same category, the four scripts compute the same estimated value: the value
\* a script has computed is the value estimateur_demo.py computes.
C14_Original ==
    (RunTermine /\ estimation.faite) =>
        estimation.estimation_finale = ValeurDemo(Entree, mon_bien)

\* the multiplier of a category
Multiplicateur(c) ==
    CASE c = "A_RENOVER"     -> [n |-> 17, d |-> 20]
      [] c = "STANDARD"      -> [n |-> 1, d |-> 1]
      [] c = "HAUT_DE_GAMME" -> [n |-> 6, d |-> 5]

\* the arithmetic mean of the price per m2 over the records of df
MoyenneDe(df) ==
    IF Len(df) = 0 THEN NaN
    ELSE RDiv(SeriesSum([i \in 1..Len(df) |-> PrixDe(df[i])]), FromInt(Len(df)))

\* mean price per m2 of df, times the multiplier of the category, times the surface
ValeurDe(df, bien) ==
    RMul(RMul(MoyenneDe(df), Multiplicateur(bien.standing)),
         FromInt(bien.surface_habitable))

\* C14 (amended): given the same non-empty record sequence (positive surfaces,
\* prices present), the same surface and the same category, estimateur_demo,
\* estimateur_demo_streamlit and estimateur_immobilier_fix compute the same
\* estimated value: the mean price per m2 of all records times the multiplier of
\* the category times the surface (estimateur_immobilier_fix.py applies no
\* multiplier and its category is always Standard, multiplier 1.0).
\* estimateur_immobilier_streamlit.py computes mean times multiplier times surface
\* from the mean of the records inside the [5 %, 95 %] band only, and computes a
\* value exactly when that band holds a record and its mean is not 0; when the
\* band is empty the run ends on a ValueError.
C14_Amended ==
    RunTermine =>
        /\ variant # "streamlit" =>
              /\ estimation.faite
              /\ estimation.estimation_finale = ValeurDe(df_transactions, mon_bien)
        /\ variant = "streamlit" =>
              LET garde == DansLaBande(df_transactions)
              IN  /\ estimation.faite <=>
                        (Len(garde) > 0 /\ ~REq(MoyenneDe(garde), FromInt(0)))
                  /\ estimation.faite =>
                        estimation.estimation_finale = ValeurDe(garde, mon_bien)
                  /\ Len(garde) = 0 <=> exception = "ValueError"

\* C14 (case reached): the trimming script valued a high-end property from the
\* records inside the band, at a value other than the one the mean of all the
\* records gives
C14_Witness ==
    /\ RunTermine
    /\ variant = "streamlit"
    /\ mon_bien.standing = "HAUT_DE_GAMME"
    /\ estimation.faite
    /\ Len(DansLaBande(df_transactions)) < Len(df_transactions)
    /\ estimation.estimation_finale # ValeurDe(df_transactions, mon_bien)

\* C17 (as claimed): in the real-data dashboard the number shown as 'Nombre de
\* transactions brutes' (stats['nb_transactions'], also shown as the number of
\* transactions analysed) is the number of records the fetch returned, the count
\* before the 5 % / 95 % trimming.
C17_Original ==
    (variant = "streamlit" /\ estimation.faite) =>
        /\ analyse.stats["nb_transactions"] = Len(df_transactions)
        /\ Affiche("Nombre de transactions brutes", Len(df_transactions))
        /\ Affiche("transactions DVF analysees", Len(df_transactions))
        /\ Affiche("transactions immobilieres analysees", Len(df_transactions))

----------------------------------------------------------------------------
(* Further properties of analyser_marche (specification SpecAppel) *)

\* C15 (as claimed): a call of analyser_marche leaves the record set it was
\* given unchanged (same records, same fields) and changes no state outside its
\* return value: it writes no file.
C15_Original ==
    [][AppelAnalyserMarche =>
          (df_transactions' = df_transactions /\ ~analyse'.fichier)]_vars

\* C16 (as claimed): for every non-empty record set with positive surfaces and
\* present prices (sets of 1, 2 or 3 records with distinct prices per m2
\* included) the set the trimming variant keeps between the interpolated 5 % and
\* 95 % quantiles is non-empty, and the call returns numeric statistics instead
\* of raising.
C16_Original ==
    (/\ Retour
     /\ variant = "streamlit"
     /\ Len(df_transactions) > 0
     /\ SurfacesPositives(df_transactions)) =>
        /\ Len(analyse.df_clean) > 0
        /\ analyse.leve = "None"
        /\ analyse.stats # None

====
